---- MODULE Spec2Model ----
(***************************************************************************)
(* Model of the connection pool (utils/connection-pool.ts) together with   *)
(* the part of SnowflakeClient (clients/snowflake-client.ts) the pool      *)
(* drives: connect, disconnect, isConnected.                               *)
(*                                                                         *)
(* Every action is one run-to-completion slice of JavaScript: the code     *)
(* from one resumption (a call, a timer, a transport callback, the         *)
(* continuation of an await) up to the next await.  Slices of different    *)
(* calls interleave freely, which is what the event loop allows.           *)
(*                                                                         *)
(* The second half of the module follows one SnowflakeClient that is used  *)
(* directly: its connect(), execute() and disconnect() calls, the          *)
(* transport handles it creates and the callbacks and timers of each.      *)
(*                                                                         *)
(* The last part follows one MCPServer (server/mcp-server.ts): its         *)
(* registerResourceHandler(), start() and stop() calls and the settling    *)
(* of the connect() and close() of the McpServer it wraps.                 *)
(***************************************************************************)
EXTENDS FiniteSets, Integers, Naturals, Sequences, TLC

(* ---- bounds of the model ---- *)
MaxRequests == 3      \* acquire() calls issued in one behaviour
MaxConnIds == 2       \* SnowflakeClient objects constructed in one behaviour
MaxPoolSize == 2      \* largest maxConnections a pool is constructed with
MaxCalls == 3         \* calls made on the client that is used directly
MaxHandles == 2       \* transport handles that client creates in one behaviour
MaxServerCalls == 4   \* start() and stop() calls made on the MCPServer

(* ---- program constants ---- *)
DefaultMaxConnections == 10
DefaultMinConnections == 2
DefaultIdleTimeout == 300000
DefaultAcquireTimeout == 10000
CleanupPeriod == 60000
maxIdleTime == 30 * 60 * 1000
ConnectTimeout == 10000
defaultTimeout == 30000

(* The instants of Date.now() a behaviour passes through: construction,   *)
(* the acquire timeout after it, the first two supervisor periods, and an  *)
(* instant past the staleness threshold.                                   *)
Instants == {0, 60000, 1800001}
LateInstants == {1800101}

(* The instants the directly used client passes through: construction,   *)
(* a query timeout of 100 ms after it, the connect timeout, and an        *)
(* instant past the staleness threshold.                                   *)
ClientInstants == {0, 100, 10000, 1800001}

(* options.timeout of an execute() call; 0 stands for an absent option *)
ExecuteTimeouts == {0, 100}

NoHandle == 0

RequestIds == 1..MaxRequests
ConnIds == 1..MaxConnIds
NoConn == 0
InitOwner == 0

VARIABLES
  requested,       \* the Partial<ConnectionPoolConfig> given to the constructor
  poolConfig,      \* this.poolConfig
  connections,     \* this.connections: the Map's keys in insertion order
  inUse,           \* PooledConnection.inUse, per connection object
  lastUsed,        \* PooledConnection.lastUsed, per connection object
  client,          \* per SnowflakeClient: connection handle and lastUsed
  creating,        \* createConnection() calls awaiting client.connect()
  waitingQueue,    \* this.waitingQueue
  req,             \* every acquire() call: where it stands, what it got
  isShuttingDown,  \* this.isShuttingDown
  timerArmed,      \* this.cleanupInterval is set and not cleared
  initialized,     \* initialize() has been called
  shutdownPc,      \* position of the shutdown() call
  shutdownAwait,   \* disconnects shutdown() is awaiting
  closeWarnings,   \* connections whose disconnect() threw inside shutdown()
  tickPc,          \* position of the cleanupIdleConnections() call
  connectionsToClose, \* its local list, what is left of it
  tickedAt,        \* when the cleanup interval last fired (set up at construction)
  now,             \* Date.now()
  connection,      \* SnowflakeClient.connection: a transport handle or null
  connectionPromise, \* SnowflakeClient.connectionPromise, named by its handle
  isConnecting,    \* SnowflakeClient.isConnecting
  clientLastUsed,  \* SnowflakeClient.lastUsed
  activeQueries,   \* SnowflakeClient.activeQueries
  handle,          \* the transport handles created, in order: handshake, timer, promises, destroy() calls
  call,            \* the calls made on the client, in order: where each stands, how it ended
  resourceHandler, \* MCPServer.resourceHandler is set
  isRunning,       \* MCPServer.isRunning
  transport,       \* the StdioServerTransport: "new", "connected" or "closed"
  serverCall       \* the start() and stop() calls, in order: where each stands, how it ended

(* the fields of the client that is used directly and the calls on it *)
clientVars == <<connection, connectionPromise, isConnecting, clientLastUsed,
                activeQueries, handle, call>>

(* the fields of the MCPServer and the calls on it *)
serverVars == <<resourceHandler, isRunning, transport, serverCall>>

(* the pool, its connections and the calls on it *)
poolVars == <<requested, poolConfig, connections, inUse, lastUsed, client, creating,
              waitingQueue, req, isShuttingDown, timerArmed, initialized,
              shutdownPc, shutdownAwait, closeWarnings, tickPc, connectionsToClose,
              tickedAt>>

vars == <<requested, poolConfig, connections, inUse, lastUsed, client, creating,
          waitingQueue, req, isShuttingDown, timerArmed, initialized,
          shutdownPc, shutdownAwait, closeWarnings, tickPc, connectionsToClose,
          tickedAt, now, connection, connectionPromise, isConnecting,
          clientLastUsed, activeQueries, handle, call,
          resourceHandler, isRunning, transport, serverCall>>

(* ---- helpers over sequences ---- *)
Range(s) == {s[i] : i \in 1..Len(s)}

RECURSIVE SeqWithout(_, _)
SeqWithout(s, x) ==
  IF s = <<>> THEN <<>>
  ELSE IF Head(s) = x THEN SeqWithout(Tail(s), x)
       ELSE <<Head(s)>> \o SeqWithout(Tail(s), x)

(* `value || fallback' on numbers: 0 and an absent field are both falsy *)
OrDefault(value, fallback) == IF value = 0 THEN fallback ELSE value

(* constructor: this.poolConfig *)
Construct(p) ==
  [maxConnections |-> OrDefault(p.maxConnections, DefaultMaxConnections),
   minConnections |-> OrDefault(p.minConnections, DefaultMinConnections),
   idleTimeout    |-> OrDefault(p.idleTimeout, DefaultIdleTimeout),
   acquireTimeout |-> OrDefault(p.acquireTimeout, DefaultAcquireTimeout)]

RequestedConfigs ==
  [maxConnections : 1..MaxPoolSize,
   minConnections : {0, 1},
   idleTimeout    : {1000},
   acquireTimeout : {100}]

(* ---- SnowflakeClient ---- *)
(* isConnectionHealthy(): a handle, and used within the last 30 minutes *)
isConnectionHealthy(c) ==
  /\ client[c].connection
  /\ ~(now - client[c].lastUsed > maxIdleTime)

(* an isConnected() that reports every client as connected *)
AlwaysConnected(c) == TRUE

isConnected(c) == client[c].connection /\ isConnectionHealthy(c)

(* ---- ConnectionPool: pure helpers ---- *)
(* findAvailableConnection(): first in Map order that is idle and connected *)
RECURSIVE FirstAvailable(_, _)
FirstAvailable(s, iu) ==
  IF s = <<>> THEN NoConn
  ELSE IF ~iu[Head(s)] /\ isConnected(Head(s)) THEN Head(s)
       ELSE FirstAvailable(Tail(s), iu)

(* an acquire() that skips the scan of the existing connections *)
NoAvailableConnection == NoConn

findAvailableConnection == FirstAvailable(connections, inUse)

(* a lookup that still knows a client whose connection left the Map *)
FindRemovedConnection(c) == c

(* findConnectionByClient: every pooled connection has its own client *)
findConnectionByClient(c) == IF c \in Range(connections) THEN c ELSE NoConn

(* an acquire() that does not look at the shutdown flag *)
AcquireNeverRejected == FALSE

(* acquire(), line 84 and line 103 *)
AcquireRejected == isShuttingDown
UnderLimit == Len(connections) < poolConfig.maxConnections

(* generateConnectionId(), and the arrival number of an acquire() call *)
NextConnId == Cardinality({c \in ConnIds : client[c].born}) + 1
NextRequestId == Cardinality({r \in RequestIds : req[r].st # "none"}) + 1

(* new SnowflakeClient(config) followed by connect() up to its await:     *)
(* establishConnection() stores the handle before the handshake completes *)
StartedClient == [born |-> TRUE, connection |-> TRUE, lastUsed |-> now]

(* waitForConnection(): the two functions a queue entry and its timer know *)
PromiseResolve(r) == <<"resolve", r>>
WrappedResolve(r) == <<"clearTimeout+resolve", r>>
WaitRequest(r) == [waiter |-> r, resolve |-> WrappedResolve(r), timestamp |-> now]

(* Array.prototype.findIndex over the queue, 0 for -1 *)
RECURSIVE FindIndexFrom(_, _, _)
FindIndexFrom(q, f, i) ==
  IF i > Len(q) THEN 0
  ELSE IF q[i].resolve = f THEN i ELSE FindIndexFrom(q, f, i + 1)

FindIndex(q, f) == FindIndexFrom(q, f, 1)

(* Array.prototype.splice(index, 1) *)
Splice(q, i) == [j \in 1..(Len(q) - 1) |-> IF j < i THEN q[j] ELSE q[j + 1]]

(* the timer callback of waitForConnection(), lines 266-271 *)
QueueAfterTimeout(q, r) ==
  LET index == FindIndex(q, PromiseResolve(r))
  IN IF index # 0 THEN Splice(q, index) ELSE q

(* the entry of a caller that is still blocked *)
EntryOf(r) == CHOOSE e \in Range(waitingQueue) : e.waiter = r

(* request.resolve(client) / request.reject(error): settles the caller's  *)
(* promise unless it is settled already                                    *)
Settle(rq, r, st, c) ==
  IF rq[r].st = "waiting" THEN [rq EXCEPT ![r].st = st, ![r].conn = c] ELSE rq

(* a processWaitingQueue() that takes the newest entry: pop() *)
LastWaiterIndex(q) == Len(q)

(* which end of the queue processWaitingQueue() serves: shift() *)
NextWaiterIndex(q) == 1

(* processWaitingQueue(), lines 291-304 *)
RECURSIVE ProcessWaitingQueue(_, _, _, _)
ProcessWaitingQueue(q, iu, lu, rq) ==
  IF q = <<>> THEN [queue |-> q, inUse |-> iu, lastUsed |-> lu, req |-> rq]
  ELSE LET a == FirstAvailable(connections, iu)
           i == NextWaiterIndex(q)
       IN IF a = NoConn THEN [queue |-> q, inUse |-> iu, lastUsed |-> lu, req |-> rq]
          ELSE ProcessWaitingQueue(Splice(q, i),
                                   [iu EXCEPT ![a] = TRUE],
                                   [lu EXCEPT ![a] = now],
                                   Settle(rq, q[i].waiter, "holding", a))

(* a shutdown() that rejects only the request at the head of the queue *)
RejectFirst(q, rq) ==
  IF q = <<>> THEN rq ELSE Settle(rq, Head(q).waiter, "shutdownError", NoConn)

(* shutdown(), lines 183-186 *)
RECURSIVE RejectAll(_, _)
RejectAll(q, rq) ==
  IF q = <<>> THEN rq
  ELSE RejectAll(Tail(q), Settle(rq, Head(q).waiter, "shutdownError", NoConn))

(* cleanupIdleConnections(), line 342 *)
shouldClose(c) ==
  /\ ~inUse[c]
  /\ now - lastUsed[c] > poolConfig.idleTimeout
  /\ Len(connections) > poolConfig.minConnections

(* what `await client.disconnect()' waits for: the transport's destroy    *)
(* callback, or, when the client has no handle, its immediate return      *)
DisconnectPc(c) == IF client[c].connection THEN "destroying" ELSE "returning"

(* a call before its first statement *)
NoCall ==
  [kind |-> "none", pc |-> "none", handle |-> NoHandle, timeout |-> 0, calledAt |-> 0,
   startedAt |-> 0, op |-> "none", timer |-> FALSE, result |-> "none"]

Init ==
  /\ requested \in RequestedConfigs
  /\ poolConfig = Construct(requested)
  /\ connections = <<>>
  /\ inUse = [c \in ConnIds |-> FALSE]
  /\ lastUsed = [c \in ConnIds |-> 0]
  /\ client = [c \in ConnIds |-> [born |-> FALSE, connection |-> FALSE, lastUsed |-> 0]]
  /\ creating = [c \in {} |-> InitOwner]
  /\ waitingQueue = <<>>
  /\ req = [r \in RequestIds |-> [st |-> "none", conn |-> NoConn, waited |-> FALSE]]
  /\ isShuttingDown = FALSE
  /\ timerArmed = TRUE
  /\ initialized = FALSE
  /\ shutdownPc = "idle"
  /\ shutdownAwait = {}
  /\ closeWarnings = {}
  /\ tickPc = "idle"
  /\ connectionsToClose = <<>>
  /\ tickedAt = 0
  /\ now = 0
  /\ connection = NoHandle
  /\ connectionPromise = NoHandle
  /\ isConnecting = FALSE
  /\ clientLastUsed = 0
  /\ activeQueries = {}
  /\ handle = <<>>
  /\ call = <<>>
  /\ resourceHandler = FALSE
  /\ isRunning = FALSE
  /\ transport = "new"
  /\ serverCall = <<>>

(* A continuation that is already on the microtask queue: the acquire()  *)
(* whose createConnection() has returned, the tick whose disconnect() has *)
(* settled, the shutdown() whose disconnects have all settled.  Timers    *)
(* and transport callbacks run only when the microtask queue is empty;    *)
(* calls made by the pool's users can come from microtasks of their own.  *)
MicrotaskPending ==
  \/ \E r \in RequestIds : req[r].st = "created"
  \/ tickPc \in {"returning", "throwing"}
  \/ shutdownPc = "closing" /\ shutdownAwait = {}

(* ---- createConnection() ---- *)
(* a client.connect() completes and createConnection() registers the      *)
(* connection, inUse = false; an acquire() that awaits it resumes later    *)
CreateConnectionDone(c) ==
  /\ c \in DOMAIN creating
  /\ ~MicrotaskPending
  /\ client' = [client EXCEPT ![c].lastUsed = now]
  /\ connections' = Append(connections, c)
  /\ inUse' = [inUse EXCEPT ![c] = FALSE]
  /\ lastUsed' = [lastUsed EXCEPT ![c] = now]
  /\ creating' = [d \in DOMAIN creating \ {c} |-> creating[d]]
  /\ req' = IF creating[c] = InitOwner THEN req
            ELSE [req EXCEPT ![creating[c]].st = "created", ![creating[c]].conn = c]
  /\ UNCHANGED <<serverVars, clientVars, requested, poolConfig, closeWarnings, waitingQueue, isShuttingDown, timerArmed,
                 initialized, shutdownPc, shutdownAwait, tickPc, connectionsToClose, tickedAt, now>>

(* an acquire() without the try/catch of lines 104-117: the error of      *)
(* createConnection() reaches the caller                                   *)
CreateConnectionRethrown(c) ==
  /\ c \in DOMAIN creating
  /\ ~MicrotaskPending
  /\ client' = [client EXCEPT ![c].connection = FALSE]
  /\ creating' = [d \in DOMAIN creating \ {c} |-> creating[d]]
  /\ req' = IF creating[c] = InitOwner THEN req
            ELSE [req EXCEPT ![creating[c]].st = "createError"]
  /\ UNCHANGED <<serverVars, clientVars, requested, poolConfig, closeWarnings, connections, inUse, lastUsed,
                 waitingQueue, isShuttingDown, timerArmed, initialized, shutdownPc,
                 shutdownAwait, tickPc, connectionsToClose, tickedAt, now>>

(* an initialize() that gives up at the first failure: the creations it   *)
(* still awaits are abandoned, as Promise.all over bare promises would    *)
CreateConnectionAbortsInit(c) ==
  /\ c \in DOMAIN creating
  /\ ~MicrotaskPending
  /\ client' = [client EXCEPT ![c].connection = FALSE]
  /\ creating' = [d \in {e \in DOMAIN creating \ {c} :
                           creating[c] # InitOwner \/ creating[e] # InitOwner}
                    |-> creating[d]]
  /\ IF creating[c] = InitOwner
     THEN UNCHANGED <<req, waitingQueue>>
     ELSE /\ req' = [req EXCEPT ![creating[c]].st = "waiting", ![creating[c]].waited = TRUE]
          /\ waitingQueue' = Append(waitingQueue, WaitRequest(creating[c]))
  /\ UNCHANGED <<serverVars, clientVars, requested, poolConfig, closeWarnings, connections, inUse, lastUsed, isShuttingDown,
                 timerArmed, initialized, shutdownPc, shutdownAwait, tickPc,
                 connectionsToClose, tickedAt, now>>

(* a client.connect() fails (handshake error or the connect timeout):     *)
(* createConnection() rethrows; initialize() logs it, acquire() falls     *)
(* through to waitForConnection()                                          *)
CreateConnectionFailed(c) ==
  /\ c \in DOMAIN creating
  /\ ~MicrotaskPending
  /\ client' = [client EXCEPT ![c].connection = FALSE]
  /\ creating' = [d \in DOMAIN creating \ {c} |-> creating[d]]
  /\ IF creating[c] = InitOwner
     THEN UNCHANGED <<req, waitingQueue>>
     ELSE /\ req' = [req EXCEPT ![creating[c]].st = "waiting", ![creating[c]].waited = TRUE]
          /\ waitingQueue' = Append(waitingQueue, WaitRequest(creating[c]))
  /\ UNCHANGED <<serverVars, clientVars, requested, poolConfig, closeWarnings, connections, inUse, lastUsed, isShuttingDown,
                 timerArmed, initialized, shutdownPc, shutdownAwait, tickPc,
                 connectionsToClose, tickedAt, now>>

(* ---- initialize() ---- *)
Initialize ==
  /\ ~initialized
  /\ NextConnId + poolConfig.minConnections - 1 <= MaxConnIds
  /\ initialized' = TRUE
  /\ LET new == NextConnId..(NextConnId + poolConfig.minConnections - 1)
     IN /\ client' = [c \in ConnIds |-> IF c \in new THEN StartedClient ELSE client[c]]
        /\ creating' = [c \in DOMAIN creating \cup new |->
                          IF c \in new THEN InitOwner ELSE creating[c]]
  /\ UNCHANGED <<serverVars, clientVars, requested, poolConfig, closeWarnings, connections, inUse, lastUsed, waitingQueue, req,
                 isShuttingDown, timerArmed, shutdownPc, shutdownAwait, tickPc,
                 connectionsToClose, tickedAt, now>>

(* ---- acquire() ---- *)
AcquireShuttingDown(r) ==
  /\ AcquireRejected
  /\ req' = [req EXCEPT ![r].st = "shutdownError"]
  /\ UNCHANGED <<connections, inUse, lastUsed, client, creating, waitingQueue>>

AcquireExisting(r) ==
  /\ ~AcquireRejected
  /\ findAvailableConnection # NoConn
  /\ inUse' = [inUse EXCEPT ![findAvailableConnection] = TRUE]
  /\ lastUsed' = [lastUsed EXCEPT ![findAvailableConnection] = now]
  /\ req' = [req EXCEPT ![r].st = "holding", ![r].conn = findAvailableConnection]
  /\ UNCHANGED <<connections, client, creating, waitingQueue>>

AcquireCreate(r) ==
  /\ ~AcquireRejected
  /\ findAvailableConnection = NoConn
  /\ UnderLimit
  /\ NextConnId <= MaxConnIds
  /\ client' = [client EXCEPT ![NextConnId] = StartedClient]
  /\ creating' = [c \in DOMAIN creating \cup {NextConnId} |->
                    IF c = NextConnId THEN r ELSE creating[c]]
  /\ req' = [req EXCEPT ![r].st = "creating"]
  /\ UNCHANGED <<connections, inUse, lastUsed, waitingQueue>>

AcquireWait(r) ==
  /\ ~AcquireRejected
  /\ findAvailableConnection = NoConn
  /\ ~UnderLimit
  /\ req' = [req EXCEPT ![r].st = "waiting", ![r].waited = TRUE]
  /\ waitingQueue' = Append(waitingQueue, WaitRequest(r))
  /\ UNCHANGED <<connections, inUse, lastUsed, client, creating>>

Acquire ==
  /\ NextRequestId <= MaxRequests
  /\ \/ AcquireShuttingDown(NextRequestId)
     \/ AcquireExisting(NextRequestId)
     \/ AcquireCreate(NextRequestId)
     \/ AcquireWait(NextRequestId)
  /\ UNCHANGED <<serverVars, clientVars, requested, poolConfig, closeWarnings, isShuttingDown, timerArmed, initialized,
                 shutdownPc, shutdownAwait, tickPc, connectionsToClose, tickedAt, now>>

(* acquire() resumes after `await this.createConnection()', lines 106-113 *)
AcquireResume(r) ==
  /\ req[r].st = "created"
  /\ inUse' = [inUse EXCEPT ![req[r].conn] = TRUE]
  /\ req' = [req EXCEPT ![r].st = "holding"]
  /\ UNCHANGED <<serverVars, clientVars, requested, poolConfig, closeWarnings, connections, lastUsed, client, creating,
                 waitingQueue, isShuttingDown, timerArmed, initialized, shutdownPc,
                 shutdownAwait, tickPc, connectionsToClose, tickedAt, now>>

(* a waitForConnection() whose setTimeout is given no delay: the timer    *)
(* fires on the next turn of the event loop                               *)
AcquireTimeoutAtOnce(r) ==
  /\ req[r].st = "waiting"
  /\ ~MicrotaskPending
  /\ waitingQueue' = QueueAfterTimeout(waitingQueue, r)
  /\ req' = [req EXCEPT ![r].st = "timeoutError"]
  /\ UNCHANGED <<serverVars, clientVars, requested, poolConfig, closeWarnings, connections, inUse, lastUsed,
                 client, creating, isShuttingDown, timerArmed, initialized, shutdownPc,
                 shutdownAwait, tickPc, connectionsToClose, tickedAt, now>>

(* the acquireTimeout timer of a waiter fires *)
AcquireTimeout(r) ==
  /\ req[r].st = "waiting"
  /\ ~MicrotaskPending
  /\ now - EntryOf(r).timestamp >= poolConfig.acquireTimeout
  /\ waitingQueue' = QueueAfterTimeout(waitingQueue, r)
  /\ req' = [req EXCEPT ![r].st = "timeoutError"]
  /\ UNCHANGED <<serverVars, clientVars, requested, poolConfig, closeWarnings, connections, inUse, lastUsed, client, creating,
                 isShuttingDown, timerArmed, initialized, shutdownPc, shutdownAwait,
                 tickPc, connectionsToClose, tickedAt, now>>

(* ---- release(client) by the caller that holds it ---- *)
(* "releasedUnknown": the call that found no pooled connection for the    *)
(* client, logged 'Attempted to release unknown connection' and returned  *)
Release(r) ==
  /\ req[r].st = "holding"
  /\ IF findConnectionByClient(req[r].conn) = NoConn
     THEN /\ req' = [req EXCEPT ![r].st = "releasedUnknown"]
          /\ UNCHANGED <<inUse, lastUsed, waitingQueue>>
     ELSE LET c == findConnectionByClient(req[r].conn)
              after == ProcessWaitingQueue(waitingQueue,
                                           [inUse EXCEPT ![c] = FALSE],
                                           [lastUsed EXCEPT ![c] = now],
                                           [req EXCEPT ![r].st = "released"])
          IN /\ inUse' = after.inUse
             /\ lastUsed' = after.lastUsed
             /\ waitingQueue' = after.queue
             /\ req' = after.req
  /\ UNCHANGED <<serverVars, clientVars, requested, poolConfig, closeWarnings, connections, client, creating, isShuttingDown,
                 timerArmed, initialized, shutdownPc, shutdownAwait, tickPc,
                 connectionsToClose, tickedAt, now>>

(* ---- release(client) once more, by a caller that released it before ---- *)
ReleaseAgain(r) ==
  /\ req[r].st \in {"released", "releasedUnknown"}
  /\ IF findConnectionByClient(req[r].conn) = NoConn
     THEN UNCHANGED <<inUse, lastUsed, waitingQueue, req>>
     ELSE LET c == findConnectionByClient(req[r].conn)
              after == ProcessWaitingQueue(waitingQueue,
                                           [inUse EXCEPT ![c] = FALSE],
                                           [lastUsed EXCEPT ![c] = now],
                                           req)
          IN /\ inUse' = after.inUse
             /\ lastUsed' = after.lastUsed
             /\ waitingQueue' = after.queue
             /\ req' = after.req
  /\ UNCHANGED <<serverVars, clientVars, requested, poolConfig, closeWarnings, connections, client, creating,
                 isShuttingDown, timerArmed, initialized, shutdownPc, shutdownAwait,
                 tickPc, connectionsToClose, tickedAt, now>>

(* ---- shutdown() ---- *)
(* up to `await Promise.allSettled(closePromises)': every disconnect()    *)
(* has been called, those of clients with a handle are pending            *)
Shutdown ==
  /\ shutdownPc = "idle"
  /\ isShuttingDown' = TRUE
  /\ timerArmed' = FALSE
  /\ req' = RejectAll(waitingQueue, req)
  /\ waitingQueue' = <<>>
  /\ shutdownAwait' = {c \in Range(connections) : client[c].connection}
  /\ shutdownPc' = "closing"
  /\ UNCHANGED <<serverVars, clientVars, requested, poolConfig, closeWarnings, connections, inUse, lastUsed, client, creating,
                 initialized, tickPc, connectionsToClose, tickedAt, now>>

(* the destroy callback of one of them, with or without an error: the     *)
(* finally of disconnect() drops the handle; an error is caught by the    *)
(* closure of line 189 and logged, so every closePromise resolves         *)
ShutdownDisconnected(c, ok) ==
  /\ c \in shutdownAwait
  /\ ~MicrotaskPending
  /\ client' = [client EXCEPT ![c].connection = FALSE]
  /\ shutdownAwait' = shutdownAwait \ {c}
  /\ closeWarnings' = IF ok THEN closeWarnings ELSE closeWarnings \cup {c}
  /\ UNCHANGED <<serverVars, clientVars, requested, poolConfig, connections, inUse, lastUsed, creating,
                 waitingQueue, req, isShuttingDown, timerArmed, initialized,
                 shutdownPc, tickPc, connectionsToClose, tickedAt, now>>

(* all settled: this.connections.clear() *)
ShutdownFinish ==
  /\ shutdownPc = "closing"
  /\ shutdownAwait = {}
  /\ connections' = <<>>
  /\ shutdownPc' = "done"
  /\ UNCHANGED <<serverVars, clientVars, requested, poolConfig, closeWarnings, inUse, lastUsed, client, creating, waitingQueue,
                 req, isShuttingDown, timerArmed, initialized, shutdownAwait, tickPc,
                 connectionsToClose, tickedAt, now>>

(* ---- cleanupIdleConnections(), the supervisor tick ---- *)
(* the interval fires: selection loop, then the first disconnect() call *)
CleanupStart ==
  /\ timerArmed
  /\ ~MicrotaskPending
  /\ now - tickedAt >= CleanupPeriod
  /\ tickPc = "idle"
  /\ tickedAt' = now
  /\ LET selected == IF isShuttingDown THEN <<>> ELSE SelectSeq(connections, shouldClose)
     IN /\ connectionsToClose' = selected
        /\ tickPc' = IF selected = <<>> THEN "idle" ELSE DisconnectPc(Head(selected))
  /\ UNCHANGED <<serverVars, clientVars, requested, poolConfig, closeWarnings, connections, inUse, lastUsed, client, creating,
                 waitingQueue, req, isShuttingDown, timerArmed, initialized,
                 shutdownPc, shutdownAwait, now>>

(* the destroy callback of the disconnect() the tick awaits, with or     *)
(* without an error: the finally of disconnect() drops the handle         *)
CleanupDestroyed(ok) ==
  /\ tickPc = "destroying"
  /\ ~MicrotaskPending
  /\ client' = [client EXCEPT ![Head(connectionsToClose)].connection = FALSE]
  /\ tickPc' = IF ok THEN "returning" ELSE "throwing"
  /\ UNCHANGED <<serverVars, clientVars, requested, poolConfig, closeWarnings, connections, inUse, lastUsed, creating,
                 waitingQueue, req, isShuttingDown, timerArmed, initialized,
                 shutdownPc, shutdownAwait, connectionsToClose, tickedAt, now>>

(* the tick resumes after `await connection.client.disconnect()': when it *)
(* returned the connection is deleted from the Map, when it threw the     *)
(* error is logged; the loop goes on to the next disconnect() call        *)
CleanupResume ==
  /\ tickPc \in {"returning", "throwing"}
  /\ LET c == Head(connectionsToClose)
         rest == Tail(connectionsToClose)
     IN /\ connections' = IF tickPc = "returning" THEN SeqWithout(connections, c)
                          ELSE connections
        /\ connectionsToClose' = rest
        /\ tickPc' = IF rest = <<>> THEN "idle" ELSE DisconnectPc(Head(rest))
  /\ UNCHANGED <<serverVars, clientVars, requested, poolConfig, closeWarnings, inUse, lastUsed, client, creating, waitingQueue,
                 req, isShuttingDown, timerArmed, initialized, shutdownPc, shutdownAwait,
                 tickedAt, now>>

(* time passes *)
Advance ==
  /\ ~MicrotaskPending
  /\ \E t \in Instants : t > now /\ now' = t
  /\ UNCHANGED <<serverVars, clientVars, requested, poolConfig, closeWarnings, connections, inUse, lastUsed, client, creating,
                 waitingQueue, req, isShuttingDown, timerArmed, initialized,
                 shutdownPc, shutdownAwait, tickPc, connectionsToClose, tickedAt>>

Next ==
  \/ Initialize
  \/ Acquire
  \/ \E c \in ConnIds : CreateConnectionDone(c)
  \/ \E c \in ConnIds : CreateConnectionFailed(c)
  \/ \E r \in RequestIds : AcquireResume(r)
  \/ \E r \in RequestIds : AcquireTimeout(r)
  \/ \E r \in RequestIds : Release(r)
  \/ Shutdown
  \/ \E c \in ConnIds, ok \in BOOLEAN : ShutdownDisconnected(c, ok)
  \/ ShutdownFinish
  \/ CleanupStart
  \/ \E ok \in BOOLEAN : CleanupDestroyed(ok)
  \/ CleanupResume
  \/ Advance

Spec == Init /\ [][Next]_vars

(* What the event loop and the driver guarantee: a continuation on the    *)
(* microtask queue runs, a timer that is due fires, destroy() calls back. *)
Fairness ==
  /\ \A r \in RequestIds : WF_vars(AcquireResume(r))
  /\ \A r \in RequestIds : WF_vars(AcquireTimeout(r))
  /\ \A c \in ConnIds : WF_vars(\E ok \in BOOLEAN : ShutdownDisconnected(c, ok))
  /\ WF_vars(ShutdownFinish)
  /\ WF_vars(\E ok \in BOOLEAN : CleanupDestroyed(ok))
  /\ WF_vars(CleanupResume)

(* the pool constructed with maxConnections 2 and minConnections 1 *)
TwoConnectionPool ==
  /\ Init
  /\ requested.maxConnections = 2
  /\ requested.minConnections = 1

FairSpec == TwoConnectionPool /\ [][Next]_vars /\ Fairness

(* The pool followed for one acquire timeout past the staleness          *)
(* threshold: the clock also reaches an instant 100 ms after the last     *)
AdvanceLate ==
  /\ ~MicrotaskPending
  /\ \E t \in LateInstants : t > now /\ now' = t
  /\ UNCHANGED <<serverVars, clientVars, requested, poolConfig, closeWarnings, connections, inUse, lastUsed,
                 client, creating, waitingQueue, req, isShuttingDown, timerArmed,
                 initialized, shutdownPc, shutdownAwait, tickPc, connectionsToClose,
                 tickedAt>>

NextStale ==
  \/ Next
  \/ AdvanceLate

(* the pool constructed with maxConnections 1 and minConnections 1 *)
OneConnectionPool ==
  /\ Init
  /\ requested.maxConnections = 1
  /\ requested.minConnections = 1

SpecStale == OneConnectionPool /\ [][NextStale]_vars

(* The pool constructed with maxConnections 2, its createConnection()     *)
(* calls settling (the handshake calls back or, after 10 seconds, the     *)
(* timer of establishConnection() rejects) and the continuations on the   *)
(* microtask queue running.                                               *)
LargestPool ==
  /\ Init
  /\ requested.maxConnections = MaxPoolSize

CreationFairness ==
  /\ \A c \in ConnIds : WF_vars(CreateConnectionDone(c) \/ CreateConnectionFailed(c))
  /\ \A r \in RequestIds : WF_vars(AcquireResume(r))
  /\ WF_vars(ShutdownFinish)
  /\ WF_vars(CleanupResume)

FairInitSpec == LargestPool /\ [][Next]_vars /\ CreationFairness

(* The pool with callers that may release a connection a second time *)
NextDoubleRelease ==
  \/ Next
  \/ \E r \in RequestIds : ReleaseAgain(r)

SpecDoubleRelease == TwoConnectionPool /\ [][NextDoubleRelease]_vars

(* ================= SnowflakeClient, used directly ================= *)
(* isConnectionHealthy() and isConnected() of that client *)
ClientIsConnectionHealthy ==
  /\ connection # NoHandle
  /\ ~(now - clientLastUsed > maxIdleTime)

ClientIsConnected == connection # NoHandle /\ ClientIsConnectionHealthy

(* a connect() that never finds an attempt in flight *)
NoAttemptInFlight == FALSE

(* connect(), line 295: an attempt is in flight *)
AttemptInFlight == isConnecting /\ connectionPromise # NoHandle

(* `options.timeout || this.defaultTimeout' *)
QueryTimeout(t) == OrDefault(t, defaultTimeout)

(* generateQueryId(): Date.now() and nine random base-36 digits, taken to  *)
(* differ between the calls of one behaviour                               *)
generateQueryId(k) == <<now, k>>

(* the local queryId of an execute() call that has passed line 411 *)
QueryIdOf(k) == <<call[k].startedAt, k>>

NextCallId == Len(call) + 1
NextHandle == Len(handle) + 1

(* the call that is being made *)
NewCall(kind, t) == [NoCall EXCEPT !.kind = kind, !.timeout = t, !.calledAt = now]

(* how a connect() that has settled leaves the call that awaited it: a     *)
(* connect() call has returned or thrown, an execute() call goes on or     *)
(* throws the error of connect()                                           *)
AfterConnect(c, settled) ==
  IF settled = "resolved"
  THEN IF c.kind = "connect" THEN [c EXCEPT !.pc = "done", !.result = "ok"]
       ELSE [c EXCEPT !.pc = "connected"]
  ELSE [c EXCEPT !.pc = "failed",
                 !.result = IF settled = "timeout" THEN "connectTimeout"
                            ELSE "handshakeError"]

(* ---- connect(), lines 286-303, called by k (directly or by execute) ---- *)
(* the third branch runs establishConnection() up to its await: the       *)
(* handle is stored, the 10 s timer set and the handshake started          *)
ConnectBody(kind, t) ==
  IF connection # NoHandle /\ ClientIsConnectionHealthy
  THEN /\ clientLastUsed' = now
       /\ call' = Append(call, AfterConnect(NewCall(kind, t), "resolved"))
       /\ UNCHANGED <<connection, connectionPromise, isConnecting, handle>>
  ELSE IF AttemptInFlight
  THEN /\ call' = Append(call, [NewCall(kind, t) EXCEPT !.pc = "joined",
                                                         !.handle = connectionPromise])
       /\ UNCHANGED <<connection, connectionPromise, isConnecting, clientLastUsed, handle>>
  ELSE /\ NextHandle <= MaxHandles
       /\ isConnecting' = TRUE
       /\ connectionPromise' = NextHandle
       /\ connection' = NextHandle
       /\ handle' = Append(handle,
                         [handshake |-> "pending", timer |-> TRUE, startedAt |-> now,
                          promise |-> "pending", established |-> "pending", destroys |-> 0])
       /\ call' = Append(call, [NewCall(kind, t) EXCEPT !.pc = "awaiting",
                                                      !.handle = NextHandle])
       /\ UNCHANGED clientLastUsed

ConnectCall ==
  /\ NextCallId <= MaxCalls
  /\ ConnectBody("connect", 0)
  /\ UNCHANGED <<activeQueries, now, poolVars, serverVars>>

(* A continuation of the client that is already on the microtask queue;   *)
(* timers and transport callbacks run only when there is none              *)
ClientMicrotaskPending ==
  \/ \E h \in DOMAIN handle : /\ handle[h].promise # "pending"
                              /\ handle[h].established = "pending"
  \/ \E k \in DOMAIN call : /\ call[k].pc \in {"awaiting", "joined"}
                            /\ handle[call[k].handle].established # "pending"
  \/ \E k \in DOMAIN call : call[k].pc \in {"connected", "settled", "destroyed"}

(* the callback of connection.connect(), lines 351-369 *)
HandshakeCallback(h, ok) ==
  /\ handle[h].handshake = "pending"
  /\ ~ClientMicrotaskPending
  /\ handle' = [handle EXCEPT
                  ![h].handshake = IF ok THEN "connected" ELSE "failed",
                  ![h].timer = FALSE,
                  ![h].promise = IF handle[h].promise # "pending" THEN handle[h].promise
                                 ELSE IF ok THEN "resolved" ELSE "handshakeError"]
  /\ clientLastUsed' = IF ok THEN now ELSE clientLastUsed
  /\ UNCHANGED <<connection, connectionPromise, isConnecting, activeQueries, call,
                 now, poolVars, serverVars>>

(* the 10 s timer of establishConnection(), lines 347-349 *)
ConnectTimer(h) ==
  /\ handle[h].timer
  /\ ~ClientMicrotaskPending
  /\ now - handle[h].startedAt >= ConnectTimeout
  /\ handle' = [handle EXCEPT
                  ![h].timer = FALSE,
                  ![h].promise = IF handle[h].promise = "pending" THEN "timeout"
                                 ELSE handle[h].promise]
  /\ UNCHANGED <<connection, connectionPromise, isConnecting, clientLastUsed,
                 activeQueries, call, now, poolVars, serverVars>>

(* an establishConnection() without its catch: a failed attempt leaves    *)
(* the handle in this.connection                                          *)
EstablishResumeKeepsHandle(h) ==
  /\ handle[h].promise # "pending"
  /\ handle[h].established = "pending"
  /\ handle' = [handle EXCEPT ![h].established = handle[h].promise]
  /\ UNCHANGED <<connection, connectionPromise, isConnecting, clientLastUsed,
                 activeQueries, call, now, poolVars, serverVars>>

(* establishConnection() resumes after its await: it returns, or its      *)
(* catch drops the handle and rethrows, lines 371-374                     *)
EstablishResume(h) ==
  /\ handle[h].promise # "pending"
  /\ handle[h].established = "pending"
  /\ handle' = [handle EXCEPT ![h].established = handle[h].promise]
  /\ connection' = IF handle[h].promise = "resolved" THEN connection ELSE NoHandle
  /\ UNCHANGED <<connectionPromise, isConnecting, clientLastUsed, activeQueries, call,
                 now, poolVars, serverVars>>

(* connect() resumes after `await this.connectionPromise': the finally    *)
(* of lines 306-309, then the call returns or throws                      *)
ConnectResume(k) ==
  /\ call[k].pc = "awaiting"
  /\ handle[call[k].handle].established # "pending"
  /\ isConnecting' = FALSE
  /\ connectionPromise' = NoHandle
  /\ call' = [call EXCEPT ![k] = AfterConnect(call[k], handle[call[k].handle].established)]
  /\ UNCHANGED <<connection, clientLastUsed, activeQueries, handle, now, poolVars, serverVars>>

(* a connect() that returned the in-flight promise (line 297) settles as  *)
(* that promise did, after the call that awaited it first                  *)
JoinResume(k) ==
  /\ call[k].pc = "joined"
  /\ handle[call[k].handle].established # "pending"
  /\ ~\E j \in DOMAIN call : call[j].pc = "awaiting" /\ call[j].handle = call[k].handle
  /\ call' = [call EXCEPT ![k] = AfterConnect(call[k], handle[call[k].handle].established)]
  /\ UNCHANGED <<connection, connectionPromise, isConnecting, clientLastUsed,
                 activeQueries, handle, now, poolVars, serverVars>>

(* ---- execute(sql, {timeout: t}) ---- *)
(* line 405: connect() is called and awaited *)
ExecuteCall(t) ==
  /\ NextCallId <= MaxCalls
  /\ ConnectBody("execute", QueryTimeout(t))
  /\ UNCHANGED <<activeQueries, now, poolVars, serverVars>>

(* lines 407-427: the query id is registered, the statement sent to the   *)
(* transport and the timeout timer set; then the race is awaited           *)
ExecuteStart(k) ==
  /\ call[k].pc = "connected"
  /\ IF connection = NoHandle
     THEN /\ call' = [call EXCEPT ![k].pc = "failed", ![k].result = "noConnection"]
          /\ UNCHANGED <<activeQueries, clientLastUsed>>
     ELSE /\ activeQueries' = activeQueries \cup {generateQueryId(k)}
          /\ clientLastUsed' = now
          /\ call' = [call EXCEPT ![k].pc = "racing", ![k].startedAt = now,
                                  ![k].handle = connection,
                                  ![k].op = "running", ![k].timer = TRUE]
  /\ UNCHANGED <<connection, connectionPromise, isConnecting, handle, now, poolVars, serverVars>>

(* the complete callback of connection.execute(), lines 468-479: it       *)
(* settles the race unless the timer has settled it                        *)
QueryComplete(k, ok) ==
  /\ call[k].op = "running"
  /\ ~ClientMicrotaskPending
  /\ call' = [call EXCEPT
                ![k].op = IF ok THEN "completed" ELSE "errored",
                ![k].pc = IF call[k].pc = "racing" THEN "settled" ELSE call[k].pc,
                ![k].result = IF call[k].pc # "racing" THEN call[k].result
                              ELSE IF ok THEN "rows" ELSE "executionError"]
  /\ UNCHANGED <<connection, connectionPromise, isConnecting, clientLastUsed,
                 activeQueries, handle, now, poolVars, serverVars>>

(* the timer of createTimeoutPromise(), lines 489-496; nothing clears it *)
QueryTimer(k) ==
  /\ call[k].timer
  /\ ~ClientMicrotaskPending
  /\ now - call[k].startedAt >= call[k].timeout
  /\ call' = [call EXCEPT
                ![k].timer = FALSE,
                ![k].pc = IF call[k].pc = "racing" THEN "settled" ELSE call[k].pc,
                ![k].result = IF call[k].pc = "racing" THEN "timeout" ELSE call[k].result]
  /\ UNCHANGED <<connection, connectionPromise, isConnecting, clientLastUsed,
                 activeQueries, handle, now, poolVars, serverVars>>

(* an execute() that removes its query id only on the success path *)
ExecuteResumeNoFinally(k) ==
  /\ call[k].pc = "settled"
  /\ activeQueries' = IF call[k].result = "rows"
                      THEN activeQueries \ {QueryIdOf(k)}
                      ELSE activeQueries
  /\ call' = [call EXCEPT ![k].pc = IF call[k].result = "rows" THEN "done" ELSE "failed"]
  /\ UNCHANGED <<connection, connectionPromise, isConnecting, clientLastUsed, handle,
                 now, poolVars, serverVars>>

(* execute() resumes after the race: it returns the rows or rethrows, and *)
(* the finally of line 456 removes the query id                            *)
ExecuteResume(k) ==
  /\ call[k].pc = "settled"
  /\ activeQueries' = activeQueries \ {QueryIdOf(k)}
  /\ call' = [call EXCEPT ![k].pc = IF call[k].result = "rows" THEN "done" ELSE "failed"]
  /\ UNCHANGED <<connection, connectionPromise, isConnecting, clientLastUsed, handle,
                 now, poolVars, serverVars>>

(* ---- disconnect() ---- *)
(* lines 511-522: without a handle it returns, else destroy() is called   *)
DisconnectCall ==
  /\ NextCallId <= MaxCalls
  /\ IF connection = NoHandle
     THEN /\ call' = Append(call, [NewCall("disconnect", 0) EXCEPT !.pc = "done",
                                                                     !.result = "ok"])
          /\ UNCHANGED handle
     ELSE /\ handle' = [handle EXCEPT ![connection].destroys = @ + 1]
          /\ call' = Append(call, [NewCall("disconnect", 0) EXCEPT !.pc = "destroying",
                                                                     !.handle = connection])
  /\ UNCHANGED <<connection, connectionPromise, isConnecting, clientLastUsed,
                 activeQueries, now, poolVars, serverVars>>

(* the callback of connection.destroy(), lines 522-534 *)
DestroyCallback(k, ok) ==
  /\ call[k].pc = "destroying"
  /\ ~ClientMicrotaskPending
  /\ call' = [call EXCEPT ![k].pc = "destroyed",
                          ![k].result = IF ok THEN "ok" ELSE "disconnectError"]
  /\ UNCHANGED <<connection, connectionPromise, isConnecting, clientLastUsed,
                 activeQueries, handle, now, poolVars, serverVars>>

(* a disconnect() that drops the handle only when destroy() succeeded *)
DisconnectResumeNoFinally(k) ==
  /\ call[k].pc = "destroyed"
  /\ connection' = IF call[k].result = "ok" THEN NoHandle ELSE connection
  /\ call' = [call EXCEPT ![k].pc = IF call[k].result = "ok" THEN "done" ELSE "failed"]
  /\ UNCHANGED <<connectionPromise, isConnecting, clientLastUsed, activeQueries, handle,
                 now, poolVars, serverVars>>

(* disconnect() resumes: the finally of lines 536-538 drops the handle,   *)
(* then the call returns or throws                                         *)
DisconnectResume(k) ==
  /\ call[k].pc = "destroyed"
  /\ connection' = NoHandle
  /\ call' = [call EXCEPT ![k].pc = IF call[k].result = "ok" THEN "done" ELSE "failed"]
  /\ UNCHANGED <<connectionPromise, isConnecting, clientLastUsed, activeQueries, handle,
                 now, poolVars, serverVars>>

(* a timer of the client has reached its time and has not fired yet *)
ClientTimerDue ==
  \/ \E h \in DOMAIN handle : handle[h].timer /\ now - handle[h].startedAt >= ConnectTimeout
  \/ \E k \in DOMAIN call : call[k].timer /\ now - call[k].startedAt >= call[k].timeout

(* time passes for the client, from one instant to the next, once the     *)
(* timers that are due have fired                                          *)
ClientAdvance ==
  /\ ~ClientMicrotaskPending
  /\ ~ClientTimerDue
  /\ \E t \in ClientInstants :
       /\ t > now
       /\ \A u \in ClientInstants : u > now => t <= u
       /\ now' = t
  /\ UNCHANGED <<clientVars, poolVars, serverVars>>

ClientNext ==
  \/ ConnectCall
  \/ \E t \in ExecuteTimeouts : ExecuteCall(t)
  \/ DisconnectCall
  \/ \E h \in DOMAIN handle, ok \in BOOLEAN : HandshakeCallback(h, ok)
  \/ \E h \in DOMAIN handle : ConnectTimer(h)
  \/ \E h \in DOMAIN handle : EstablishResume(h)
  \/ \E k \in DOMAIN call : ConnectResume(k)
  \/ \E k \in DOMAIN call : JoinResume(k)
  \/ \E k \in DOMAIN call : ExecuteStart(k)
  \/ \E k \in DOMAIN call, ok \in BOOLEAN : QueryComplete(k, ok)
  \/ \E k \in DOMAIN call : QueryTimer(k)
  \/ \E k \in DOMAIN call : ExecuteResume(k)
  \/ \E k \in DOMAIN call, ok \in BOOLEAN : DestroyCallback(k, ok)
  \/ \E k \in DOMAIN call : DisconnectResume(k)
  \/ ClientAdvance

(* a client constructed at instant 0, beside a pool nobody calls *)
DirectClient ==
  /\ Init
  /\ requested.maxConnections = 1
  /\ requested.minConnections = 1

ClientSpec == DirectClient /\ [][ClientNext]_vars

(* ======================= the claims ======================= *)
Holders(c) == {r \in RequestIds : req[r].st = "holding" /\ req[r].conn = c}
Waiting(rq) == {r \in RequestIds : rq[r].st = "waiting"}
GivenConnection(r) == req[r].st # "holding" /\ req'[r].st = "holding"

(* position of r's WaitRequest in a queue, 0 when it has none *)
RECURSIVE PositionFrom(_, _, _)
PositionFrom(q, r, i) ==
  IF i > Len(q) THEN 0
  ELSE IF q[i].waiter = r THEN i ELSE PositionFrom(q, r, i + 1)

Position(q, r) == PositionFrom(q, r, 1)

(* the supervisor calls disconnect() on c in this step / deletes c in it *)
SupervisorDisconnects(c) ==
  /\ tickPc' # "idle"
  /\ connectionsToClose' # connectionsToClose
  /\ c = Head(connectionsToClose')

SupervisorDeletes(c) ==
  /\ tickPc # "idle"
  /\ connectionsToClose' = Tail(connectionsToClose)
  /\ c = Head(connectionsToClose)
  /\ c \in Range(connections) /\ c \notin Range(connections')

(* C1: in every reachable state the pool holds at most maxConnections     *)
(* connections (and so at most that many are marked inUse).               *)
CapacityInvariant ==
  /\ Len(connections) <= poolConfig.maxConnections
  /\ Cardinality({c \in Range(connections) : inUse[c]}) <= poolConfig.maxConnections

(* C2: at every moment each connection is held by at most one caller: no  *)
(* connection is returned by two acquire() calls without a release of it  *)
(* in between.                                                            *)
NoDoubleIssue == \A c \in ConnIds : Cardinality(Holders(c)) <= 1

(* C3: when a waiter's acquire timeout fires, its WaitRequest is removed  *)
(* from the wait queue and the other requests keep their order.           *)
TimeoutRemovesWaiter ==
  [][\A r \in RequestIds :
       (req[r].st = "waiting" /\ req'[r].st = "timeoutError")
         => /\ Position(waitingQueue', r) = 0
            /\ waitingQueue' = Splice(waitingQueue, Position(waitingQueue, r))]_vars

(* C4: waiters are handed connections in enqueue order: when a queued     *)
(* request B is fulfilled, no request A enqueued before B is still        *)
(* waiting.                                                               *)
FifoHandoff ==
  [][\A a, b \in Waiting(req) :
       (/\ Position(waitingQueue, a) < Position(waitingQueue, b)
        /\ req'[b].st = "holding")
         => req'[a].st # "waiting"]_vars

(* C4, its case: a waiter has been handed a connection while a request    *)
(* enqueued behind it is still waiting.                                   *)
FifoHandoffWitness ==
  \E a, b \in RequestIds :
    /\ req[a].st = "holding" /\ req[a].waited
    /\ req[b].st = "waiting"
    /\ Position(waitingQueue, b) = 1

(* C5: no acquire() that arrived later is given a connection while an     *)
(* acquire() that arrived earlier is waiting in the queue.                *)
NoOvertaking ==
  [][\A a, b \in RequestIds :
       (a < b /\ req[a].st = "waiting" /\ req'[a].st = "waiting") => ~GivenConnection(b)]_vars

(* C6: the supervisor never disconnects or deletes a connection that is   *)
(* marked inUse at that moment.                                           *)
SupervisorSparesInUse ==
  [][\A c \in ConnIds : (SupervisorDisconnects(c) \/ SupervisorDeletes(c)) => ~inUse[c]]_vars

(* C7: without shutdown, no step of a supervisor tick takes the total     *)
(* connection count from at least minConnections to below it.             *)
IdleFloor ==
  [][(/\ ~isShuttingDown'
      /\ \E c \in ConnIds : SupervisorDeletes(c)
      /\ Len(connections) >= poolConfig.minConnections)
       => Len(connections') >= poolConfig.minConnections]_vars

(* C8: a tick that finds the pool holding one connection, released and    *)
(* idle longer than idleTimeout, selects it for eviction when the pool    *)
(* was constructed with minConnections = 0 and keeps it when constructed  *)
(* with minConnections = 1.                                               *)
ScenarioIdleEviction ==
  [][\A c \in ConnIds :
       (/\ tickedAt' # tickedAt
        /\ connections = <<c>>
        /\ ~inUse[c]
        /\ \E r \in RequestIds : req[r].st = "released" /\ req[r].conn = c
        /\ now - lastUsed[c] > poolConfig.idleTimeout)
         => /\ requested.minConnections = 0 => connectionsToClose' = <<c>>
            /\ requested.minConnections = 1 => connectionsToClose' = <<>>]_vars

(* C9: once shutdown() has been called the flag stays set, and every      *)
(* acquire() issued from then on fails at once with the shutting-down     *)
(* error: it creates nothing, marks nothing inUse, enqueues nothing.      *)
ShutdownIsFinal ==
  [][isShuttingDown =>
       /\ isShuttingDown'
       /\ \A r \in RequestIds :
            (req[r].st = "none" /\ req'[r].st # "none")
              => /\ req'[r].st = "shutdownError"
                 /\ UNCHANGED <<connections, inUse, lastUsed, client, creating, waitingQueue>>]_vars

(* C9, its case: an acquire() issued after shutdown() has failed with the *)
(* shutting-down error without ever having been queued.                   *)
ShutdownIsFinalWitness ==
  \E r \in RequestIds : isShuttingDown /\ req[r].st = "shutdownError" /\ ~req[r].waited

(* C10: after shutdown begins no connection is added to the pool, and     *)
(* once shutdown() has resolved the connection set is empty and no caller *)
(* is handed a connection.                                                *)
NoConnectionAfterShutdown ==
  [][isShuttingDown =>
       /\ Range(connections') \subseteq Range(connections)
       /\ \A r \in RequestIds : shutdownPc = "done" => ~GivenConnection(r)]_vars

(* C11: after shutdown begins no WaitRequest is newly enqueued (an         *)
(* acquire() whose creation fails after shutdown began does not enter the *)
(* queue), and no caller receives the acquire-timeout error any more.     *)
NoEnqueueAfterShutdown ==
  [][isShuttingDown =>
       /\ Range(waitingQueue') \subseteq Range(waitingQueue)
       /\ \A r \in RequestIds :
            req'[r].st = "timeoutError" => req[r].st = "timeoutError"]_vars

(* what a step of a shutdown() call does to the queue and the connections *)
ShutdownInOrder ==
  /\ (shutdownPc = "idle" /\ shutdownPc' = "closing") =>
       /\ waitingQueue' = <<>>
       /\ \A r \in Waiting(req) : req'[r].st = "shutdownError"
       /\ \A c \in Range(connections) : client[c].connection => c \in shutdownAwait'
  /\ \A c \in shutdownAwait : (c \in shutdownAwait' \/ ~client'[c].connection)
  /\ (shutdownPc = "closing" /\ shutdownPc' = "done") =>
       /\ shutdownAwait = {}
       /\ connections' = <<>>

(* C12: shutdown() always resolves.  The call rejects every caller queued *)
(* at that moment with the shutting-down error and leaves the queue       *)
(* empty, and calls disconnect() on every pooled connection, in use or    *)
(* idle; each of these disconnects runs to its end whether or not another *)
(* one failed; when they have all settled the connection set is emptied   *)
(* and shutdown() resolves, which it eventually does.                     *)
ShutdownCompletes ==
  /\ [][ShutdownInOrder]_vars
  /\ (shutdownPc = "closing") ~> (shutdownPc = "done")

(* C12, its case: shutdown() has resolved after rejecting a queued caller *)
(* and after the disconnect of an idle connection failed, and the         *)
(* connection that was in use has been disconnected all the same.         *)
ShutdownCompletesWitness ==
  /\ shutdownPc = "done"
  /\ connections = <<>>
  /\ waitingQueue = <<>>
  /\ \E r \in RequestIds : req[r].st = "shutdownError" /\ req[r].waited
  /\ \E c1 \in closeWarnings, c2 \in ConnIds \ closeWarnings :
       ~inUse[c1] /\ inUse[c2] /\ ~client[c2].connection

(* C13: a release(c) by a caller that released c before, made when the    *)
(* pool has since handed c to another caller, leaves c inUse and held by  *)
(* that caller alone: it is handed to nobody else.                        *)
DoubleReleaseHarmless ==
  [][\A r \in RequestIds : \A c \in ConnIds :
       (/\ req[r].st = "released" /\ req[r].conn = c
        /\ Holders(c) # {}
        /\ ReleaseAgain(r))
         => /\ inUse'[c]
            /\ Holders(c)' = Holders(c)]_vars

(* C14: release(c) with a client that is not in the pool's connection set *)
(* resolves and leaves the connection set, every inUse flag, every        *)
(* lastUsed stamp and the wait queue as they were; no other caller's      *)
(* request is touched.                                                    *)
UnknownReleaseIsNoOp ==
  [][\A r \in RequestIds :
       (/\ req[r].st = "holding"
        /\ req'[r].st \in {"released", "releasedUnknown"}
        /\ req[r].conn \notin Range(connections))
         => /\ UNCHANGED <<connections, inUse, lastUsed, waitingQueue>>
            /\ req' = [req EXCEPT ![r].st = "releasedUnknown"]]_vars

(* C14, its case: a caller has released a client whose connection the     *)
(* pool no longer had, while that connection was still flagged inUse.     *)
UnknownReleaseWitness ==
  \E r \in RequestIds :
    /\ req[r].st = "releasedUnknown"
    /\ req[r].conn \notin Range(connections)
    /\ inUse[req[r].conn]

(* the callers still blocked, in queue order, and the oldest of them *)
LiveWaiters(q, rq) == SelectSeq(q, LAMBDA e : rq[e.waiter].st = "waiting")

(* C15: when the holder releases a pooled connection that is healthy      *)
(* while a caller is waiting in the queue, the oldest waiting caller      *)
(* holds a connection marked inUse once that release() has run.           *)
ReleaseServesOldestWaiter ==
  [][\A r \in RequestIds :
       (/\ req[r].st = "holding" /\ req'[r].st = "released"
        /\ req[r].conn \in Range(connections)
        /\ isConnected(req[r].conn)
        /\ LiveWaiters(waitingQueue, req) # <<>>)
         => LET w == Head(LiveWaiters(waitingQueue, req)).waiter
            IN /\ req'[w].st = "holding"
               /\ inUse'[req'[w].conn]]_vars

(* an acquire() call is made in this step, by request r *)
AcquireCalled(r) == req[r].st = "none" /\ req'[r].st # "none"

(* the call returns at once the first pooled connection that is idle and  *)
(* healthy, marked inUse, and creates and enqueues nothing                *)
ReturnsExisting(r) ==
  LET c == FirstAvailable(connections, inUse)
  IN /\ req'[r].st = "holding" /\ req'[r].conn = c
     /\ inUse'[c]
     /\ UNCHANGED <<connections, client, creating, waitingQueue>>

(* C16, as amended: when shutdown has not begun and the pool holds a      *)
(* connection that is not inUse and is healthy, acquire() returns such an *)
(* existing connection immediately, marks it inUse, and neither creates a *)
(* connection nor changes the connection count; the connection returned   *)
(* is the first such in the pool's order, so acquire, release, acquire on *)
(* an otherwise idle pool returns the same connection twice.              *)
ReuseIdleConnection ==
  [][\A r \in RequestIds :
       (/\ AcquireCalled(r)
        /\ ~isShuttingDown
        /\ FirstAvailable(connections, inUse) # NoConn)
         => ReturnsExisting(r)]_vars

(* C16, its case: the only connection ever created has been acquired,     *)
(* released, and acquired again by a later caller that never waited.      *)
ReuseIdleConnectionWitness ==
  /\ Cardinality({c \in ConnIds : client[c].born}) = 1
  /\ \E r1, r2 \in RequestIds :
       /\ r1 < r2
       /\ req[r1].st = "released"
       /\ req[r2].st = "holding" /\ ~req[r2].waited
       /\ req[r2].conn = req[r1].conn

(* C16, as stated: whenever the pool holds a connection that is not inUse *)
(* and is healthy, acquire() returns such an existing connection.         *)
ReuseIdleConnectionAlways ==
  [][\A r \in RequestIds :
       (/\ AcquireCalled(r)
        /\ FirstAvailable(connections, inUse) # NoConn)
         => ReturnsExisting(r)]_vars

(* how an acquire() call stands: still pending, or ended in one of three  *)
(* ways; anything else is an error of another kind                        *)
Outcome(st) ==
  CASE st \in {"none", "creating", "created", "waiting"} -> "pending"
    [] st \in {"holding", "released", "releasedUnknown"} -> "connection"
    [] st = "timeoutError" -> "acquireTimeout"
    [] st = "shutdownError" -> "shuttingDown"
    [] OTHER -> "otherError"

(* C17: acquire() never fails with a connection-creation error: a call    *)
(* whose create-new step is pending either gets the connection or is      *)
(* enqueued as a waiter, and every call is pending or has ended in        *)
(* exactly one of a connection, the acquire-timeout error and the         *)
(* shutting-down error, an outcome that never changes afterwards.         *)
AcquireOutcomes ==
  [][\A r \in RequestIds :
       /\ Outcome(req'[r].st) # "otherError"
       /\ Outcome(req[r].st) # "pending" => Outcome(req'[r].st) = Outcome(req[r].st)
       /\ (req[r].st = "creating" /\ req'[r].st # "creating")
            => \/ req'[r].st = "created"
               \/ /\ req'[r].st = "waiting"
                  /\ waitingQueue' = Append(waitingQueue, WaitRequest(r))]_vars

(* C17, its case: a caller whose connection creation failed is waiting in *)
(* the queue of a pool that holds no connection and never removed one.    *)
AcquireOutcomesWitness ==
  /\ connections = <<>>
  /\ ~isShuttingDown
  /\ tickedAt = 0
  /\ \E r \in RequestIds : req[r].st = "waiting" /\ Position(waitingQueue, r) # 0

(* the acquireTimeout of r's WaitRequest has elapsed *)
TimerDue(r) == now - EntryOf(r).timestamp >= poolConfig.acquireTimeout

(* every connection the pool may hold is held by a caller *)
Saturated ==
  /\ Len(connections) >= poolConfig.maxConnections
  /\ \A c \in Range(connections) : inUse[c] /\ Holders(c) # {}

(* C18: a waiting caller does not block forever: once acquireTimeout has  *)
(* elapsed its acquire() completes, and the only way a caller leaves the  *)
(* queue of a saturated pool from which nothing is released and which is  *)
(* not shut down is the acquire-timeout error, given once the time is up. *)
(* Termination is stated in two parts: a caller whose time is up stays in *)
(* that condition for as long as it waits, and no caller is in it forever *)
(* (together: waiting with the time up leads to not waiting).             *)
WaiterCompletes ==
  /\ [][\A r \in RequestIds :
          /\ (/\ req[r].st = "waiting" /\ req'[r].st # "waiting"
              /\ Saturated /\ Saturated' /\ ~isShuttingDown'
              /\ \A h \in RequestIds : req[h].st = "holding" => req'[h].st = "holding")
               => (req'[r].st = "timeoutError" /\ TimerDue(r))
          /\ (req[r].st = "waiting" /\ TimerDue(r) /\ req'[r].st = "waiting")
               => TimerDue(r)']_vars
  /\ \A r \in RequestIds : []<>~(req[r].st = "waiting" /\ TimerDue(r))

(* C18, its case: with every connection of a full pool held and never     *)
(* released, a caller that waited has failed with the timeout error.      *)
WaiterCompletesWitness ==
  /\ Saturated
  /\ ~isShuttingDown
  /\ \A h \in RequestIds : req[h].st \notin {"released", "releasedUnknown"}
  /\ \E r \in RequestIds : req[r].st = "timeoutError" /\ req[r].waited

(* the pool holds exactly maxConnections connections, all idle and all   *)
(* unhealthy, and is creating none                                        *)
FullOfUnhealthy ==
  /\ Len(connections) = poolConfig.maxConnections
  /\ DOMAIN creating = {}
  /\ \A c \in Range(connections) : ~inUse[c] /\ ~isConnected(c)

(* the connections were unhealthy already when r was enqueued *)
UnhealthySince(r) ==
  \A c \in Range(connections) :
    \/ ~client[c].connection
    \/ EntryOf(r).timestamp - client[c].lastUsed > maxIdleTime

(* C19: an unhealthy connection does not keep occupying capacity: a       *)
(* caller of a pool not shutting down whose connections, at               *)
(* maxConnections, are all idle and unhealthy is not left to run into the *)
(* acquire timeout with the pool still in that condition.                 *)
UnhealthyReplaced ==
  [][\A r \in RequestIds :
       (/\ req[r].st = "waiting" /\ req'[r].st = "timeoutError"
        /\ ~isShuttingDown
        /\ UnhealthySince(r))
         => ~FullOfUnhealthy]_vars

(* c has a handle and was used within the last 30 minutes *)
Healthy(c) == client[c].connection /\ now - client[c].lastUsed <= maxIdleTime

(* C20: the pool never hands out a connection that is unhealthy           *)
(* (disconnected or stale) at the moment of handoff, be it by the idle    *)
(* scan of acquire(), by the handoff to a waiter in release(), or by the  *)
(* create-new path.                                                       *)
HandsOutHealthy ==
  [][\A r \in RequestIds : GivenConnection(r) => Healthy(req'[r].conn)]_vars

(* C20, its case: a caller has been handed, at this instant and by the    *)
(* idle scan, a healthy connection that another caller had released,      *)
(* while a stale idle connection stands before it in the pool's order.    *)
HandsOutHealthyWitness ==
  \E r, r0 \in RequestIds : \E i, j \in 1..Len(connections) :
    /\ req[r].st = "holding" /\ ~req[r].waited
    /\ req[r0].st = "released" /\ req[r0].conn = req[r].conn
    /\ i < j
    /\ connections[j] = req[r].conn
    /\ lastUsed[connections[j]] = now
    /\ Healthy(connections[j])
    /\ ~inUse[connections[i]]
    /\ now - client[connections[i]].lastUsed > maxIdleTime

(* C29: once the pool has begun shutting down the supervisor disconnects  *)
(* and removes nothing: no tick starts, and a tick that was in progress   *)
(* when shutdown() was called calls no further disconnect() and deletes   *)
(* no further connection.                                                 *)
SupervisorStopsAtShutdown ==
  [][isShuttingDown =>
       /\ tickedAt' = tickedAt
       /\ \A c \in ConnIds : ~SupervisorDisconnects(c) /\ ~SupervisorDeletes(c)]_vars

(* the createConnection() calls initialize() is waiting for, and the      *)
(* clients constructed so far                                             *)
InitCreations(cr) == {c \in DOMAIN cr : cr[c] = InitOwner}
Born(cl) == {c \in ConnIds : cl[c].born}

(* initialize() has resolved: Promise.allSettled has nothing left pending *)
InitializeResolved == initialized /\ InitCreations(creating) = {}

(* nothing but initialize() has been called on the pool *)
OnlyInitialized ==
  /\ \A r \in RequestIds : req[r].st = "none"
  /\ shutdownPc = "idle"

(* what the steps of an initialize() call do *)
InitializeSteps ==
  /\ (~initialized /\ initialized') =>
       /\ Cardinality(InitCreations(creating') \ InitCreations(creating)) = poolConfig.minConnections
       /\ Born(client') \ Born(client) = InitCreations(creating') \ InitCreations(creating)
  /\ \A c \in InitCreations(creating) :
       c \notin DOMAIN creating' =>
         /\ \/ connections' = Append(connections, c) /\ ~inUse'[c] /\ client'[c].connection
            \/ connections' = connections /\ ~client'[c].connection
         /\ InitCreations(creating') = InitCreations(creating) \ {c}
         /\ req' = req
  /\ initialized => initialized'

(* the pool an initialize() leaves behind when nothing else was called *)
InitializeOutcome ==
  (InitializeResolved' /\ OnlyInitialized') =>
    /\ Cardinality(Born(client')) = poolConfig.minConnections
    /\ Range(connections') = {c \in Born(client') : client'[c].connection}
    /\ \A c \in Range(connections') : ~inUse'[c]

(* C30: initialize() resolves without error after attempting exactly      *)
(* minConnections connection creations; the failure of one attempt leaves *)
(* the others pending, and once it has resolved (nothing else having been *)
(* called) the pool holds exactly the connections whose creation          *)
(* succeeded, none of them inUse.                                         *)
InitializeBestEffort ==
  /\ [][InitializeSteps /\ InitializeOutcome]_vars
  /\ initialized ~> InitializeResolved

(* C30, its case: initialize() of a pool with minConnections 2 has        *)
(* resolved after one creation failed and the other succeeded.            *)
InitializeBestEffortWitness ==
  /\ InitializeResolved
  /\ OnlyInitialized
  /\ poolConfig.minConnections = 2
  /\ Len(connections) = 1
  /\ \E c \in Born(client) : ~client[c].connection

(* ---- the client that is used directly ---- *)
(* k's connect() call is made in this step *)
ConnectCalled(k) ==
  /\ k \notin DOMAIN call
  /\ k \in DOMAIN call'
  /\ call'[k].kind = "connect"

(* the connection attempts whose handshake promise has not settled *)
InFlight(hd) == {h \in DOMAIN hd : hd[h].established = "pending"}

(* how a connect() call ends when the attempt it waited for ended as e *)
SameOutcome(c, e) ==
  \/ e = "resolved" /\ c.pc = "done" /\ c.result = "ok"
  \/ e = "timeout" /\ c.pc = "failed" /\ c.result = "connectTimeout"
  \/ e = "handshakeError" /\ c.pc = "failed" /\ c.result = "handshakeError"

(* C21: a connect() call made while another connect() attempt on the same *)
(* client is in flight waits for that attempt and completes only when it  *)
(* has completed, with the same outcome; it never returns success before  *)
(* the handshake has succeeded.                                           *)
ConnectJoinsInFlight ==
  [][\A k \in DOMAIN call' :
       /\ (ConnectCalled(k) /\ InFlight(handle) # {})
            => /\ call'[k].pc = "joined"
               /\ call'[k].handle \in InFlight(handle)
       /\ (k \in DOMAIN call /\ call[k].pc = "joined" /\ call'[k].pc # "joined")
            => SameOutcome(call'[k], handle[call[k].handle].established)]_vars

(* the calls that started a handshake and are waiting for it, and the     *)
(* handles created so far                                                 *)
Owners(cl) == {k \in DOMAIN cl : cl[k].pc = "awaiting"}
Created(hd) == DOMAIN hd

(* the client holds a handle whose handshake succeeded and which was used *)
(* within the last 30 minutes                                             *)
ConnectedAndHealthy ==
  /\ connection # NoHandle
  /\ handle[connection].handshake = "connected"
  /\ now - clientLastUsed <= maxIdleTime

(* C22: for one client, overlapping connect() calls start at most one     *)
(* handshake at a time (at most one pending call has started one, at most *)
(* one attempt is unsettled, and none is started while one is), and a     *)
(* connect() on a client that is connected and healthy starts no          *)
(* handshake and keeps the existing transport handle.                     *)
OneHandshakeAtATime ==
  [][/\ Cardinality(Owners(call')) <= 1
     /\ Cardinality(InFlight(handle')) <= 1
     /\ Created(handle') # Created(handle) => InFlight(handle) = {}
     /\ \A k \in DOMAIN call' :
          (ConnectCalled(k) /\ ConnectedAndHealthy)
            => /\ connection' = connection
               /\ handle' = handle
               /\ call'[k].pc = "done" /\ call'[k].result = "ok"]_vars

(* C22, its case: two connect() calls overlapped on one attempt, a third  *)
(* was made once the client was connected, and the client still holds the *)
(* only handle it ever created.                                           *)
OneHandshakeAtATimeWitness ==
  /\ Cardinality(Created(handle)) = 1
  /\ ConnectedAndHealthy
  /\ \E k1, k2, k3 \in DOMAIN call :
       /\ k1 < k2 /\ k2 < k3
       /\ \A k \in {k1, k2, k3} : call[k].kind = "connect" /\ call[k].pc = "done"
       /\ call[k1].handle = connection
       /\ call[k2].handle = connection
       /\ call[k3].handle = NoHandle

(* the handshake of the handle the client holds has completed             *)
(* successfully and disconnect() has not been called on it                *)
Established ==
  /\ connection # NoHandle
  /\ handle[connection].handshake = "connected"
  /\ handle[connection].destroys = 0

(* C23: in every reachable state of a client isConnected() is true if and *)
(* only if a handshake has completed successfully, no disconnect has      *)
(* happened since, and the time since last use does not exceed the        *)
(* 30-minute staleness threshold; it is false while a first handshake is  *)
(* in progress.                                                           *)
ConnectedMeansEstablished ==
  ClientIsConnected <=> (Established /\ now - clientLastUsed <= maxIdleTime)

(* k's connect() attempt ends in this step by throwing: the call that     *)
(* started the handshake leaves its finally with an error                 *)
AttemptFails(k) ==
  /\ k \in DOMAIN call
  /\ call[k].kind = "connect"
  /\ call[k].pc = "awaiting"
  /\ call'[k].pc = "failed"

(* a connect() call is made in this step and starts a handshake on a new  *)
(* handle, which the client then holds                                    *)
StartsFreshHandshake(k) ==
  /\ call'[k].pc = "awaiting"
  /\ call'[k].handle \notin Created(handle)
  /\ handle'[call'[k].handle].handshake = "pending"
  /\ connection' = call'[k].handle

(* the client holds no handle and records no attempt *)
Disconnected ==
  /\ connection = NoHandle
  /\ ~ClientIsConnected
  /\ ~isConnecting
  /\ connectionPromise = NoHandle

(* C24: when a connect() attempt fails, by a handshake error or by the    *)
(* 10-second connect timeout, the client ends Disconnected (isConnected() *)
(* false, no attempt recorded as in flight), the caller receives an error *)
(* carrying the cause, and a later connect() starts a fresh handshake.    *)
FailedConnectResets ==
  [][\A k \in DOMAIN call' :
       /\ AttemptFails(k)
            => /\ Disconnected'
               /\ \/ /\ handle[call[k].handle].handshake = "failed"
                     /\ call'[k].result = "handshakeError"
                  \/ /\ now - handle[call[k].handle].startedAt >= ConnectTimeout
                     /\ call'[k].result = "connectTimeout"
       /\ (ConnectCalled(k) /\ Disconnected) => StartsFreshHandshake(k)]_vars

(* C24, its case: one connect() failed by the handshake error, the next   *)
(* by the connect timeout, each after starting a handshake of its own.    *)
FailedConnectResetsWitness ==
  /\ Disconnected
  /\ \E k1, k2 \in DOMAIN call :
       /\ k1 < k2
       /\ call[k1].kind = "connect" /\ call[k1].result = "handshakeError"
       /\ call[k2].kind = "connect" /\ call[k2].result = "connectTimeout"
       /\ call[k1].handle # call[k2].handle
       /\ handle[call[k2].handle].handshake = "pending"

(* an execute() call that has been made and has not returned or thrown *)
ExecutePending(k) ==
  /\ call[k].kind = "execute"
  /\ call[k].pc \notin {"done", "failed"}

(* the deadline of k, its timeout counted from the call, has been reached *)
DeadlineReached(k) == now - call[k].calledAt >= call[k].timeout

(* k is about to end: its race is settled, or its timeout timer is due *)
AboutToEnd(k) ==
  \/ call[k].pc = "settled"
  \/ call[k].timer /\ now - call[k].startedAt >= call[k].timeout

(* C25: execute(sql, timeout) completes with exactly one outcome, the     *)
(* result or execution error of the operation or the timeout error,       *)
(* whichever comes first, and the caller is not blocked past the          *)
(* deadline, also when execute() first has to establish the connection:   *)
(* a call still pending when its deadline is reached is ended by its      *)
(* timeout.  A late completion of the operation changes nothing.          *)
ExecuteWithinDeadline ==
  /\ [][\A k \in DOMAIN call :
          /\ call[k].pc \in {"done", "failed"} => call'[k].result = call[k].result
          /\ (call[k].pc = "racing" /\ call'[k].pc # "racing")
               => /\ call'[k].pc = "settled"
                  /\ call'[k].result \in {"rows", "executionError", "timeout"}]_vars
  /\ [](\A k \in DOMAIN call : (ExecutePending(k) /\ DeadlineReached(k)) => AboutToEnd(k))

(* the execute() calls that have started executing and have not returned *)
Executing(cl) ==
  {k \in DOMAIN cl : cl[k].kind = "execute" /\ cl[k].pc \in {"racing", "settled"}}

(* C26: in every reachable state the client's active-operation count      *)
(* equals the number of execute() calls that have started executing and   *)
(* have not yet returned; it goes down by exactly one when a call returns *)
(* (with rows, with an execution error or with the timeout error) and is  *)
(* 0 whenever no execute() is in flight.                                  *)
ActiveCountExact ==
  [][/\ Cardinality(activeQueries') = Cardinality(Executing(call'))
     /\ \A k \in Executing(call) :
          k \notin Executing(call')
            => /\ call'[k].result \in {"rows", "executionError", "timeout"}
               /\ Cardinality(activeQueries') = Cardinality(activeQueries) - 1]_vars

(* C26, its case: of three execute() calls one has returned rows, one has *)
(* thrown the timeout error, and one is still executing and counted.      *)
ActiveCountExactWitness ==
  /\ Cardinality(activeQueries) = 1
  /\ \E k1, k2, k3 \in DOMAIN call :
       /\ call[k1].pc = "done" /\ call[k1].result = "rows"
       /\ call[k2].pc = "failed" /\ call[k2].result = "timeout"
       /\ call[k3].pc = "racing"

(* C27: a connection's transport handle is closed at most once: no        *)
(* sequence or overlap of disconnect() calls on one client invokes the    *)
(* transport's destroy() twice for the same handle.                       *)
ClosedAtMostOnce == \A h \in DOMAIN handle : handle[h].destroys <= 1

(* k's disconnect() call is made in this step / returns or throws in it *)
DisconnectCalled(k) ==
  /\ k \notin DOMAIN call
  /\ k \in DOMAIN call'
  /\ call'[k].kind = "disconnect"

DisconnectReturns(k) ==
  /\ call'[k].kind = "disconnect"
  /\ call'[k].pc \in {"done", "failed"}
  /\ k \in DOMAIN call => call[k].pc \notin {"done", "failed"}

(* C28: disconnect() always leaves the client Disconnected: when it       *)
(* returns, whether the transport close succeeded or reported an error,   *)
(* isConnected() is false, and a disconnect() made on the client in that  *)
(* state is a no-op that succeeds without touching the transport.         *)
DisconnectResets ==
  [][\A k \in DOMAIN call' :
       /\ DisconnectReturns(k)
            => /\ connection' = NoHandle
               /\ ~ClientIsConnected'
               /\ call'[k].result \in {"ok", "disconnectError"}
       /\ (DisconnectCalled(k) /\ connection = NoHandle)
            => /\ call'[k].pc = "done" /\ call'[k].result = "ok"
               /\ handle' = handle
               /\ connection' = NoHandle]_vars

(* C28, its case: after a connect() that succeeded, a disconnect() whose  *)
(* transport close reported an error has been followed by a disconnect()  *)
(* that returned at once, the handle having been closed once.             *)
DisconnectResetsWitness ==
  /\ connection = NoHandle
  /\ \E k0, k1, k2 \in DOMAIN call : \E h \in DOMAIN handle :
       /\ k0 < k1 /\ k1 < k2
       /\ call[k0].kind = "connect" /\ call[k0].pc = "done" /\ call[k0].handle = h
       /\ call[k1].kind = "disconnect" /\ call[k1].pc = "failed"
       /\ call[k1].result = "disconnectError" /\ call[k1].handle = h
       /\ call[k2].kind = "disconnect" /\ call[k2].pc = "done"
       /\ call[k2].handle = NoHandle
       /\ handle[h].destroys = 1

(* ---- the pool once more: configuration, statistics, reconciliation ---- *)
(* C31: pool configuration is validated at construction: no pool exists   *)
(* whose effective minConnections exceeds its effective maxConnections or *)
(* is negative.                                                           *)
ConfigValidated ==
  /\ poolConfig.minConnections >= 0
  /\ poolConfig.minConnections <= poolConfig.maxConnections

(* ---- getStats() ---- *)
(* PooledConnection.createdAt: createConnection() reads Date.now() for it *)
(* in the slice in which connect() resolved, the instant the client wrote *)
(* to its own lastUsed, and the pool calls nothing that writes it again   *)
createdAt(c) == client[c].lastUsed

Max(S) == CHOOSE x \in S : \A y \in S : y <= x
Min(S) == CHOOSE x \in S : \A y \in S : x <= y

(* a count of the connected connections that does not look at inUse *)
CountConnected == Cardinality({c \in Range(connections) : isConnected(c)})

(* getAvailableConnectionCount(), getInUseConnectionCount() *)
getAvailableConnectionCount ==
  Cardinality({c \in Range(connections) : ~inUse[c] /\ isConnected(c)})

getInUseConnectionCount == Cardinality({c \in Range(connections) : inUse[c]})

getStats ==
  LET connectionAges == {now - createdAt(c) : c \in Range(connections)}
  IN [totalConnections     |-> Len(connections),
      availableConnections |-> getAvailableConnectionCount,
      inUseConnections     |-> getInUseConnectionCount,
      waitingRequests      |-> Len(waitingQueue),
      oldestConnection     |-> IF connectionAges # {} THEN Max(connectionAges) ELSE 0,
      newestConnection     |-> IF connectionAges # {} THEN Min(connectionAges) ELSE 0]

(* C32: getStats().waitingRequests always equals the number of acquire()  *)
(* callers that are blocked waiting (not yet fulfilled, timed out or      *)
(* failed by shutdown), and so is 0 once every waiter has been resolved   *)
(* or has timed out.                                                      *)
WaitingRequestsExact == getStats.waitingRequests = Cardinality(Waiting(req))

(* ---- the pool left running ---- *)
(* The pool is left alone for more than 30 minutes after the last instant *)
(* a behaviour names.  The code reads the clock only in differences       *)
(* (now - lastUsed, now - timestamp, the interval), so instead of moving  *)
(* `now' on, every stored time is moved back by that much: it then lies   *)
(* further in the past than any threshold it is compared against, and the *)
(* next firing of the cleanup interval is due.                            *)
LastInstant == Max(Instants)

LongPause ==
  /\ now = LastInstant
  /\ ~MicrotaskPending
  /\ lastUsed' = [c \in ConnIds |-> 0]
  /\ client' = [c \in ConnIds |-> [client[c] EXCEPT !.lastUsed = 0]]
  /\ waitingQueue' = [i \in DOMAIN waitingQueue |-> [waitingQueue[i] EXCEPT !.timestamp = 0]]
  /\ tickedAt' = 0
  /\ UNCHANGED <<serverVars, clientVars, requested, poolConfig, closeWarnings, connections, inUse, creating,
                 req, isShuttingDown, timerArmed, initialized, shutdownPc, shutdownAwait,
                 tickPc, connectionsToClose, now>>

NextRunning ==
  \/ Next
  \/ LongPause

(* the pool constructed with maxConnections 1 *)
SmallestPool ==
  /\ Init
  /\ requested.maxConnections = 1

(* Callers release what they hold, time passes and the interval keeps     *)
(* firing; handshakes and destroy() call back, timers that are due fire   *)
(* and continuations on the microtask queue run.                          *)
RunningFairness ==
  /\ Fairness
  /\ \A r \in RequestIds : WF_vars(Release(r))
  /\ \A c \in ConnIds : WF_vars(CreateConnectionDone(c) \/ CreateConnectionFailed(c))
  /\ WF_vars(Advance)
  /\ WF_vars(LongPause)
  /\ WF_vars(CleanupStart)

FairRunningSpec == SmallestPool /\ [][NextRunning]_vars /\ RunningFairness

(* the pool holds more connections than maxConnections *)
Overshoot == Len(connections) > poolConfig.maxConnections

(* acquire() calls alone have left the pool with more than maxConnections *)
(* connections: initialize() was not called, shutdown() has not begun     *)
OvershotByAcquire == Overshoot /\ ~initialized /\ ~isShuttingDown

(* C33: a transient overshoot of capacity is reconciled: whenever         *)
(* overlapping acquire() calls leave the pool with more than              *)
(* maxConnections connections it eventually returns to at most            *)
(* maxConnections, callers releasing what they hold and supervisor ticks  *)
(* continuing to occur.                                                   *)
OvershootReconciled == OvershotByAcquire ~> ~Overshoot

(* C36: every connection marked inUse is held by a live caller, one whose  *)
(* acquire() resolved with it and who has not released it: the pool never *)
(* marks a connection inUse for a WaitRequest whose caller has already    *)
(* timed out, so no connection is left unavailable with nobody holding it *)
(* (that no connection has two holders is NoDoubleIssue).                 *)
InUseIsHeld == \A c \in Range(connections) : inUse[c] => Holders(c) # {}

(* the supervisor tick resumes after the disconnect() of c, which has     *)
(* returned or thrown                                                     *)
SupervisorResumesAfter(c) ==
  /\ tickPc \in {"returning", "throwing"}
  /\ connectionsToClose' = Tail(connectionsToClose)
  /\ c = Head(connectionsToClose)

(* C38: every connection a supervisor tick disconnected is removed from   *)
(* the pool's connection set when the tick goes on (and so when it        *)
(* completes), also when the disconnect reported an error: the pool keeps *)
(* no entry that the supervisor itself closed.                            *)
TickRemovesWhatItClosed ==
  [][\A c \in ConnIds : SupervisorResumesAfter(c) => c \notin Range(connections')]_vars

(* ---- the client that is used directly, once more ---- *)
(* the timer callback of k's createTimeoutPromise() runs in this step: it *)
(* logs 'Query execution timeout' and rejects the timeout promise         *)
TimeoutLogged(k) == call[k].timer /\ ~call'[k].timer

(* C37: the query-timeout event (the timeout error log) is emitted only   *)
(* for execute() calls whose caller receives the timeout error, never for *)
(* a query whose result was already returned or whose execution error was *)
(* already thrown.                                                        *)
TimeoutLoggedOnlyOnTimeout ==
  [][\A k \in DOMAIN call : TimeoutLogged(k) => call'[k].result = "timeout"]_vars

isServerRunning == isRunning

NextServerCallId == Len(serverCall) + 1

(* registerResourceHandler(handler), lines 41-50 *)
RegisterResourceHandler ==
  /\ resourceHandler' = TRUE
  /\ UNCHANGED <<isRunning, transport, serverCall, now, clientVars, poolVars>>

(* a start() without the check of lines 70-72 *)
StartUnchecked ==
  IF isRunning
  THEN [kind |-> "start", pc |-> "done", result |-> "alreadyRunning"]
  ELSE [kind |-> "start", pc |-> "connecting", result |-> "none"]

(* start() up to its await, lines 56-74: the call returns at once on a    *)
(* running server, throws (through the catch of line 81) without a        *)
(* resource handler, and otherwise calls server.connect(transport)        *)
StartBody ==
  IF isRunning
  THEN [kind |-> "start", pc |-> "done", result |-> "alreadyRunning"]
  ELSE IF ~resourceHandler
       THEN [kind |-> "start", pc |-> "failed", result |-> "noHandler"]
       ELSE [kind |-> "start", pc |-> "connecting", result |-> "none"]

StartCall ==
  /\ NextServerCallId <= MaxServerCalls
  /\ serverCall' = Append(serverCall, StartBody)
  /\ UNCHANGED <<resourceHandler, isRunning, transport, now, clientVars, poolVars>>

(* server.connect(transport) settles: it resolves with the transport      *)
(* connected, or rejects                                                  *)
ConnectSettled(k, ok) ==
  /\ serverCall[k].pc = "connecting"
  /\ serverCall' = [serverCall EXCEPT ![k].pc = IF ok THEN "resolved" ELSE "rejected"]
  /\ transport' = IF ok THEN "connected" ELSE transport
  /\ UNCHANGED <<resourceHandler, isRunning, now, clientVars, poolVars>>

(* start() resumes after the await: line 75, or the catch of lines 81-92 *)
StartResume(k) ==
  /\ serverCall[k].kind = "start"
  /\ serverCall[k].pc \in {"resolved", "rejected"}
  /\ IF serverCall[k].pc = "resolved"
     THEN /\ isRunning' = TRUE
          /\ serverCall' = [serverCall EXCEPT ![k].pc = "done", ![k].result = "started"]
     ELSE /\ isRunning' = isRunning
          /\ serverCall' = [serverCall EXCEPT ![k].pc = "failed", ![k].result = "connectError"]
  /\ UNCHANGED <<resourceHandler, transport, now, clientVars, poolVars>>

(* a stop() without the check of lines 104-109 *)
StopUnchecked == [kind |-> "stop", pc |-> "closing", result |-> "none"]

(* stop() up to its await, lines 99-111 *)
StopBody ==
  IF ~isRunning
  THEN [kind |-> "stop", pc |-> "done", result |-> "notRunning"]
  ELSE [kind |-> "stop", pc |-> "closing", result |-> "none"]

StopCall ==
  /\ NextServerCallId <= MaxServerCalls
  /\ serverCall' = Append(serverCall, StopBody)
  /\ UNCHANGED <<resourceHandler, isRunning, transport, now, clientVars, poolVars>>

(* server.close() settles: it resolves with the transport closed, or      *)
(* rejects                                                                *)
CloseSettled(k, ok) ==
  /\ serverCall[k].pc = "closing"
  /\ serverCall' = [serverCall EXCEPT ![k].pc = IF ok THEN "resolved" ELSE "rejected"]
  /\ transport' = IF ok THEN "closed" ELSE transport
  /\ UNCHANGED <<resourceHandler, isRunning, now, clientVars, poolVars>>

(* stop() resumes after the await: line 112, or the catch of lines 117-127 *)
StopResume(k) ==
  /\ serverCall[k].kind = "stop"
  /\ serverCall[k].pc \in {"resolved", "rejected"}
  /\ IF serverCall[k].pc = "resolved"
     THEN /\ isRunning' = FALSE
          /\ serverCall' = [serverCall EXCEPT ![k].pc = "done", ![k].result = "stopped"]
     ELSE /\ isRunning' = isRunning
          /\ serverCall' = [serverCall EXCEPT ![k].pc = "failed", ![k].result = "closeError"]
  /\ UNCHANGED <<resourceHandler, transport, now, clientVars, poolVars>>

ServerNext ==
  \/ RegisterResourceHandler
  \/ StartCall
  \/ StopCall
  \/ \E k \in DOMAIN serverCall, ok \in BOOLEAN : ConnectSettled(k, ok)
  \/ \E k \in DOMAIN serverCall : StartResume(k)
  \/ \E k \in DOMAIN serverCall, ok \in BOOLEAN : CloseSettled(k, ok)
  \/ \E k \in DOMAIN serverCall : StopResume(k)

(* a server constructed beside a pool and a client nobody calls *)
ServerAlone ==
  /\ Init
  /\ requested.maxConnections = 1
  /\ requested.minConnections = 1

ServerSpec == ServerAlone /\ [][ServerNext]_vars

NewServerCalls == DOMAIN serverCall' \ DOMAIN serverCall

(* C34: a start() made on a server with no registered resource handler    *)
(* fails with the missing-handler error in the same step, never reaches   *)
(* server.connect(transport), leaves the transport as it was, and the     *)
(* server is not running afterwards.                                      *)
StartNeedsHandler ==
  [][\A k \in NewServerCalls :
       (serverCall'[k].kind = "start" /\ ~resourceHandler)
         => /\ serverCall'[k].pc = "failed"
            /\ serverCall'[k].result = "noHandler"
            /\ transport' = transport
            /\ ~isServerRunning'
            /\ ~isServerRunning]_vars

StartNeedsHandlerWitness ==
  /\ ~resourceHandler
  /\ transport = "new"
  /\ ~isServerRunning
  /\ \E k \in DOMAIN serverCall :
       serverCall[k].kind = "start" /\ serverCall[k].result = "noHandler"

(* C35: server.connect is invoked only by a start() made while the server *)
(* is not running and server.close only by a stop() made while it is      *)
(* running; a start() on a running server and a stop() on a stopped one   *)
(* return at once and change nothing of the server; isRunning becomes     *)
(* true exactly when a start() completes after a successful connect and   *)
(* false exactly when a stop() completes after a successful close, and a  *)
(* start() or stop() that fails does not change it.                       *)
StartStopIdempotent ==
  [][/\ \A k \in DOMAIN serverCall' :
          /\ (serverCall'[k].pc = "connecting")
               => \/ (k \in DOMAIN serverCall /\ serverCall[k].pc = "connecting")
                  \/ (k \in NewServerCalls /\ serverCall'[k].kind = "start"
                        /\ ~isServerRunning)
          /\ (serverCall'[k].pc = "closing")
               => \/ (k \in DOMAIN serverCall /\ serverCall[k].pc = "closing")
                  \/ (k \in NewServerCalls /\ serverCall'[k].kind = "stop"
                        /\ isServerRunning)
     /\ (transport' # transport)
          => \E k \in DOMAIN serverCall :
               \/ (serverCall[k].kind = "start" /\ serverCall[k].pc = "connecting"
                     /\ transport' = "connected")
               \/ (serverCall[k].kind = "stop" /\ serverCall[k].pc = "closing"
                     /\ transport' = "closed")
     /\ \A k \in NewServerCalls :
          ((serverCall'[k].kind = "start") = isServerRunning)
            => /\ serverCall'[k].pc = "done"
               /\ UNCHANGED <<resourceHandler, isRunning, transport>>
     /\ \A k \in DOMAIN serverCall :
          /\ (serverCall[k].result = "none" /\ serverCall'[k].result = "started")
               => isServerRunning'
          /\ (serverCall[k].result = "none" /\ serverCall'[k].result = "stopped")
               => ~isServerRunning'
          /\ (serverCall[k].pc # "failed" /\ serverCall'[k].pc = "failed")
               => isServerRunning' = isServerRunning
     /\ (isServerRunning' # isServerRunning)
          => \E k \in DOMAIN serverCall :
               /\ serverCall[k].pc = "resolved"
               /\ serverCall'[k].result = IF isServerRunning' THEN "started" ELSE "stopped"]_vars

StartStopIdempotentWitness ==
  /\ ~isServerRunning
  /\ transport = "closed"
  /\ \A res \in {"started", "alreadyRunning", "stopped", "notRunning"} :
       \E k \in DOMAIN serverCall : serverCall[k].result = res
====
